---- MODULE Spec2Model ----
(***************************************************************************)
(* Model of webrtc/gst/gst.go: the registry of GStreamer pipelines         *)
(* (pipelines, pipelinesLock), CreatePipeline, Pipeline.Start,             *)
(* Pipeline.Stop and the exported buffer callback goHandlePipelineBuffer.  *)
(***************************************************************************)
EXTENDS Integers, Sequences, FiniteSets, TLC

(***************************************************************************)
(* Bounds of the model.                                                    *)
(***************************************************************************)
MaxPipelines == 2
MaxBuffers == 2

(***************************************************************************)
(* Program constants.                                                      *)
(***************************************************************************)
videoClockRate == 90000
audioClockRate == 48000
NanosPerSecond == 1000000000

VP8 == "VP8"
VP9 == "VP9"
H264 == "H264"
Opus == "opus"
G722 == "G722"

(***************************************************************************)
(* IEEE-754 binary32 arithmetic, as the Go expression                      *)
(*   uint32(rate * (float32(duration) / 1000000000))                       *)
(* evaluates it.  A float32 is [m, e] standing for m * 2^e with            *)
(* m = 0 or 2^23 <= m < 2^24.  All intermediate integers stay below 2^31.  *)
(***************************************************************************)
RECURSIVE Pow2(_)
Pow2(n) == IF n = 0 THEN 1 ELSE 2 * Pow2(n - 1)

Two23 == Pow2(23)
Two24 == Pow2(24)

RECURSIVE BitLen(_)
BitLen(n) == IF n = 0 THEN 0 ELSE 1 + BitLen(n \div 2)

\* round-to-nearest, ties-to-even, of m + (rem / unit) with 0 <= rem < unit
RoundEven(m, rem, unit) ==
    IF 2 * rem > unit \/ (2 * rem = unit /\ m % 2 = 1) THEN m + 1 ELSE m

\* renormalise a mantissa that rounding carried up to 2^24
Renorm(m, e) == IF m = Two24 THEN [m |-> Two23, e |-> e + 1] ELSE [m |-> m, e |-> e]

\* float32(duration) for an int32 duration >= 0
Float32OfInt(d) ==
    IF d = 0 THEN [m |-> 0, e |-> 0]
    ELSE LET bits == BitLen(d)
         IN IF bits <= 24
            THEN [m |-> d * Pow2(24 - bits), e |-> bits - 24]
            ELSE LET k == bits - 24
                     unit == Pow2(k)
                 IN Renorm(RoundEven(d \div unit, d % unit, unit), k)

\* long division r / den producing the 24 significant bits of the quotient;
\* r < den <= 10^9 so 2 * r never leaves the int32 range
RECURSIVE DivBits(_, _, _, _)
DivBits(r, den, acc, shift) ==
    IF acc >= Two23 THEN [m |-> acc, r |-> r, shift |-> shift]
    ELSE LET r2 == 2 * r
         IN IF r2 >= den THEN DivBits(r2 - den, den, 2 * acc + 1, shift + 1)
                         ELSE DivBits(r2, den, 2 * acc, shift + 1)

\* x / float32(den) for an integer den with m < den <= 10^9, den exactly
\* representable in float32 (10^9 = 1953125 * 2^9 is)
Float32DivInt(x, den) ==
    IF x.m = 0 THEN x
    ELSE LET q == DivBits(x.m, den, 0, 0)
             up == \/ 2 * q.r > den
                   \/ (2 * q.r = den /\ q.m % 2 = 1)
         IN Renorm(IF up THEN q.m + 1 ELSE q.m, x.e - q.shift)

\* float32(c) * x for an integer constant c = odd * 2^sh with odd < 2^13
RECURSIVE OddPart(_)
OddPart(c) == IF c % 2 = 0 THEN OddPart(c \div 2) ELSE c
RECURSIVE TwoPart(_)
TwoPart(c) == IF c % 2 = 0 THEN 1 + TwoPart(c \div 2) ELSE 0

Float32MulInt(c, x) ==
    IF x.m = 0 THEN x
    ELSE LET odd == OddPart(c)
             sh == TwoPart(c)
             hi == x.m \div 4096
             lo == x.m % 4096
             phi == hi * odd + ((lo * odd) \div 4096)
             plo == (lo * odd) % 4096
             \* the exact product is (phi * 4096 + plo) * 2^(x.e + sh)
             bits == BitLen(phi) + 12
             k == bits - 24
         IN IF k <= 0
            THEN [m |-> (phi * 4096 + plo) * Pow2(-k), e |-> x.e + sh + k]
            ELSE IF k <= 12
            THEN LET unit == Pow2(k)
                     m0 == phi * Pow2(12 - k) + (plo \div unit)
                 IN Renorm(RoundEven(m0, plo % unit, unit), x.e + sh + k)
            ELSE LET m0 == phi \div 2
                     rem == (phi % 2) * 4096 + plo
                 IN Renorm(RoundEven(m0, rem, 8192), x.e + sh + k)

\* uint32(x) for a float32 x >= 0 below 2^31: truncation toward zero
Uint32OfFloat32(x) ==
    IF x.m = 0 THEN 0
    ELSE IF x.e >= 0 THEN x.m * Pow2(x.e)
    ELSE IF -x.e >= 24 THEN 0
    ELSE x.m \div Pow2(-x.e)

\* the branch of gst.go:119-123: which clock rate a codec name selects
clockRateOf(codecName) == IF codecName = Opus THEN audioClockRate ELSE videoClockRate

\* uint32(clockRate * (float32(duration) / 1000000000))
samplesOf(clockRate, duration) ==
    Uint32OfFloat32(Float32MulInt(clockRate,
                                  Float32DivInt(Float32OfInt(duration), NanosPerSecond)))


(***************************************************************************)
(* Inputs.                                                                 *)
(***************************************************************************)
SupportedCodecs == {VP8, VP9, H264, Opus, G722}
TrackNames == {"A", "B"}
SessionInputs ==
    { [codecName |-> VP8, tracks |-> <<"A", "B">>],
      [codecName |-> Opus, tracks |-> <<"B", "B">>],
      [codecName |-> G722, tracks |-> << >>],
      [codecName |-> "AV1", tracks |-> <<"A">>] }
SourceInputs == {"videotestsrc"}
BufferInputs ==
    { [buffer |-> <<1>>, duration |-> 20000000],
      [buffer |-> <<2, 3>>, duration |-> 33333333] }

\* samplesOf on the clock rates and the durations of the buffers above,
\* each value computed once
sampleCount ==
    [clockRate \in {videoClockRate, audioClockRate},
     duration \in {in.duration : in \in BufferInputs} |-> samplesOf(clockRate, duration)]

\* threads are numbered: the callers of CreatePipeline below zero, one
\* streaming thread per native pipeline, named by its handle, and one
\* native caller that is not a pipeline of the registry
Creators == {-1, -2}
Stray == 0
Handles == 1..MaxPipelines
HThreads == Handles \cup {Stray}
StrayIds == {-1}

NULL == 0
NoLock == -3
NilPipeline == [Pipeline |-> NULL, tracks |-> << >>, id |-> -1, codecName |-> ""]

VARIABLES
    pipelines,      \* the registry map[int]*Pipeline
    pipelinesLock,  \* holder of the mutex, or NoLock
    native,         \* the native pipelines, by handle: state and callback id
    creator,        \* the CreatePipeline call of each caller thread
    created,        \* the pipelines returned to callers, in order of return
    stopReturned,   \* indexes of created on which Stop returned last
    handler,        \* the goHandlePipelineBuffer call of each native thread
    calls,          \* every buffer-arrival call, in order of arrival
    written,        \* the samples each track received, in order
    aborted,        \* an unrecovered panic ended the process
    mw              \* the JWTMiddleware last set up by MiddlewareInit

vars == <<pipelines, pipelinesLock, native, creator, created, stopReturned,
          handler, calls, written, aborted, mw>>

NoError == "nil"
NoKey == [family |-> "", kind |-> ""]
NoMiddleware ==
    [called |-> FALSE, config |-> [SigningAlgorithm |-> "", PubKeyPath |-> "", PrivKeyPath |-> "",
                                   PubKey |-> NoKey, PrivKey |-> NoKey, Interface |-> ""],
     PubKey |-> NoKey, PrivKey |-> NoKey, AuthorisedKeys |-> "", read |-> {}, err |-> NoError]

IdleCreator == [pc |-> "idle", codecName |-> "", tracks |-> << >>,
                pipelineSrc |-> "", pipelineStr |-> "", pipeline |-> NilPipeline,
                before |-> 0, solo |-> TRUE]
IdleHandler == [pc |-> "idle", call |-> 0, buffer |-> << >>, bufferLen |-> 0,
                duration |-> 0, pipelineID |-> -1, pipeline |-> NilPipeline,
                ok |-> FALSE, clockRate |-> 0, samples |-> 0, i |-> 0]

Init ==
    /\ pipelines = << >>
    /\ pipelinesLock = NoLock
    /\ native = << >>
    /\ creator = [c \in Creators |-> IdleCreator]
    /\ created = << >>
    /\ stopReturned = {}
    /\ handler = [h \in HThreads |-> IdleHandler]
    /\ calls = << >>
    /\ written = [t \in TrackNames |-> << >>]
    /\ aborted = FALSE
    /\ mw = NoMiddleware

(***************************************************************************)
(* CreatePipeline, gst.go:62-94                                            *)
(***************************************************************************)
\* the encoder fragment of the switch at gst.go:64-77
encoderFragment(codecName) ==
    CASE codecName = VP8 -> " ! vp8enc error-resilient=partitions keyframe-max-dist=10 auto-alt-ref=true cpu-used=5 deadline=1 ! "
      [] codecName = VP9 -> " ! vp9enc ! "
      [] codecName = H264 -> " ! video/x-raw,format=I420 ! x264enc bframes=0 speed-preset=veryfast key-int-max=60 ! video/x-h264,stream-format=byte-stream ! "
      [] codecName = Opus -> " ! opusenc ! "
      [] codecName = G722 -> " ! avenc_g722 ! "
      [] OTHER -> ""

appsinkStr == "appsink name=appsink"

\* the operands of the concatenation in the reverse order
buildPipelineStrSinkFirst(codecName, pipelineSrc) ==
    appsinkStr \o encoderFragment(codecName) \o pipelineSrc

\* pipelineStr as the cases of the switch build it:
\* pipelineSrc + fragment + pipelineStr
buildPipelineStr(codecName, pipelineSrc) ==
    pipelineSrc \o encoderFragment(codecName) \o appsinkStr

InFlightCreators == {c \in Creators : creator[c].pc \in {"lock", "store"}}

\* gst.go:62-80: the switch on codecName builds pipelineStr; the default
\* case panics: the calling thread unwinds, and either its caller recovers
\* the panic (the thread makes no further call) or the process ends
createCall(c, codecName, tracks, pipelineSrc, handled) ==
    /\ ~aborted
    /\ UNCHANGED mw
    /\ creator[c].pc = "idle"
    /\ IF handled
       THEN /\ Len(created) + Cardinality(InFlightCreators) < MaxPipelines
            /\ creator' = [d \in Creators |->
                             IF d = c
                             THEN [IdleCreator EXCEPT !.pc = "lock", !.codecName = codecName,
                                       !.tracks = tracks, !.pipelineSrc = pipelineSrc,
                                       !.pipelineStr = buildPipelineStr(codecName, pipelineSrc),
                                       !.before = Len(created),
                                       !.solo = (InFlightCreators = {})]
                             ELSE IF d \in InFlightCreators
                             THEN [creator[d] EXCEPT !.solo = FALSE]
                             ELSE creator[d]]
            /\ UNCHANGED aborted
       ELSE \E recovered \in BOOLEAN :
            /\ creator' = [creator EXCEPT ![c] = [IdleCreator EXCEPT !.pc = "panicked",
                                                                     !.codecName = codecName]]
            /\ aborted' = ~recovered
    /\ UNCHANGED <<pipelines, pipelinesLock, native, created, stopReturned, handler,
                   calls, written>>

\* a switch without the default case: every codec name goes on
CreateCallNoDefault(c, codecName, tracks, pipelineSrc) ==
    createCall(c, codecName, tracks, pipelineSrc, TRUE)

CreateCall(c, codecName, tracks, pipelineSrc) ==
    createCall(c, codecName, tracks, pipelineSrc, codecName \in SupportedCodecs)

\* gstreamer_send_create_pipeline: a new native pipeline of the given
\* description in state NULL, or no pipeline (a NULL handle) when the
\* description cannot be built
nativeCreate(pipelineStr, built) ==
    IF built THEN Append(native, [state |-> "NULL", id |-> -1, desc |-> pipelineStr])
    ELSE native

\* gst.go:82-90: pipelinesLock.Lock(), then the Pipeline value with its
\* native pipeline and id = len(pipelines)
createLock(c, exclusive, outcomes) ==
    /\ ~aborted
    /\ UNCHANGED mw
    /\ creator[c].pc = "lock"
    /\ exclusive => pipelinesLock = NoLock
    /\ pipelinesLock' = c
    /\ \E built \in outcomes :
        /\ native' = nativeCreate(creator[c].pipelineStr, built)
        /\ creator' = [creator EXCEPT ![c].pc = "store",
                          ![c].pipeline = [Pipeline |-> IF built THEN Len(native) + 1 ELSE NULL,
                                           tracks |-> creator[c].tracks,
                                           id |-> Cardinality(DOMAIN pipelines),
                                           codecName |-> creator[c].codecName]]
    /\ UNCHANGED <<pipelines, created, stopReturned, handler, calls, written, aborted>>

\* the registry touched without waiting for the lock
CreateLockNoMutex(c) == createLock(c, FALSE, BOOLEAN)

CreateLock(c) == createLock(c, TRUE, BOOLEAN)

\* the same step where the native pipeline always builds
CreateLockBuilt(c) == createLock(c, TRUE, {TRUE})

\* gst.go:92-93 pipelines[pipeline.id] = pipeline; return pipeline, with the
\* deferred Unlock of line 83
createStore(c, key, unlocks) ==
    /\ ~aborted
    /\ UNCHANGED mw
    /\ creator[c].pc = "store"
    /\ LET p == creator[c].pipeline
       IN pipelines' = [k \in DOMAIN pipelines \cup {key} |->
                          IF k = key THEN p ELSE pipelines[k]]
    /\ pipelinesLock' = IF unlocks THEN NoLock ELSE pipelinesLock
    /\ created' = Append(created, [pipeline |-> creator[c].pipeline,
                                   before |-> creator[c].before,
                                   solo |-> creator[c].solo])
    /\ creator' = [creator EXCEPT ![c] = IdleCreator]
    /\ UNCHANGED <<native, stopReturned, handler, calls, written, aborted>>

\* the pipeline stored under the key after its id
CreateStoreNextKey(c) == createStore(c, creator[c].pipeline.id + 1, TRUE)

\* CreatePipeline without the deferred Unlock
CreateStoreNoUnlock(c) == createStore(c, creator[c].pipeline.id, FALSE)

CreateStore(c) == createStore(c, creator[c].pipeline.id, TRUE)

CreatePipeline(c) ==
    \/ \E in \in SessionInputs, src \in SourceInputs : CreateCall(c, in.codecName, in.tracks, src)
    \/ CreateLock(c)
    \/ CreateStore(c)

(***************************************************************************)
(* Pipeline.Start and Pipeline.Stop, gst.go:96-104                         *)
(***************************************************************************)
\* gstreamer_send_start_pipeline(pipeline, id): the pipeline plays and its
\* appsink reports every buffer with this id
nativeStart(h, id) ==
    IF h = NULL THEN native ELSE [native EXCEPT ![h].state = "PLAYING", ![h].id = id]

\* gstreamer_send_stop_pipeline(pipeline): the pipeline is set to state NULL
nativeStop(h) ==
    IF h = NULL THEN native ELSE [native EXCEPT ![h].state = "NULL"]

start(k, id) ==
    /\ ~aborted
    /\ UNCHANGED mw
    /\ k \in 1..Len(created)
    /\ native' = nativeStart(created[k].pipeline.Pipeline, id)
    /\ stopReturned' = stopReturned \ {k}
    /\ UNCHANGED <<pipelines, pipelinesLock, creator, created, handler, calls, written, aborted>>

\* every pipeline started with the id 0
StartIdZero(k) == start(k, 0)

Start(k) == start(k, created[k].pipeline.id)

stop(k, stopsNative, removes) ==
    /\ ~aborted
    /\ UNCHANGED mw
    /\ k \in 1..Len(created)
    /\ native' = IF stopsNative THEN nativeStop(created[k].pipeline.Pipeline) ELSE native
    /\ stopReturned' = stopReturned \cup {k}
    /\ pipelines' = IF removes
                    THEN [j \in DOMAIN pipelines \ {created[k].pipeline.id} |-> pipelines[j]]
                    ELSE pipelines
    /\ UNCHANGED <<pipelinesLock, creator, created, handler, calls, written, aborted>>

\* a Stop that returns without stopping the native pipeline
StopNoNative(k) == stop(k, FALSE, FALSE)

\* a Stop that also deletes the session from the registry
StopRemoves(k) == stop(k, TRUE, TRUE)

Stop(k) == stop(k, TRUE, FALSE)

(***************************************************************************)
(* goHandlePipelineBuffer, gst.go:112-133                                  *)
(***************************************************************************)
\* the native side calls back: a playing pipeline from its streaming thread
\* with the id given to Start, any other native caller with an id of no session
emits(h, pipelineID) ==
    IF h = Stray THEN pipelineID \in StrayIds
    ELSE /\ h \in 1..Len(native)
         /\ native[h].state = "PLAYING"
         /\ pipelineID = native[h].id

\* a copy that is one byte short
GoBytesShort(buffer, bufferLen) == SubSeq(buffer, 1, bufferLen - 1)

\* C.GoBytes(buffer, bufferLen)
GoBytes(buffer, bufferLen) == SubSeq(buffer, 1, bufferLen)

\* entry of the callback, gst.go:112
HandleCall(h, buffer, duration, pipelineID) ==
    /\ ~aborted
    /\ UNCHANGED mw
    /\ handler[h].pc = "idle"
    /\ Len(calls) < MaxBuffers
    /\ emits(h, pipelineID)
    /\ calls' = Append(calls, [thread |-> h, pipelineID |-> pipelineID, buffer |-> buffer,
                               duration |-> duration, status |-> "running",
                               found |-> FALSE, writeErr |-> FALSE, freed |-> 0])
    /\ handler' = [handler EXCEPT ![h] = [IdleHandler EXCEPT !.pc = "lock",
                        !.call = Len(calls) + 1, !.buffer = buffer,
                        !.bufferLen = Len(buffer), !.duration = duration,
                        !.pipelineID = pipelineID]]
    /\ UNCHANGED <<pipelines, pipelinesLock, native, creator, created, stopReturned,
                   written, aborted>>

\* gst.go:113 pipelinesLock.Lock(): the thread waits until the mutex is free
handleLock(h, exclusive) ==
    /\ ~aborted
    /\ UNCHANGED mw
    /\ handler[h].pc = "lock"
    /\ exclusive => pipelinesLock = NoLock
    /\ pipelinesLock' = h
    /\ handler' = [handler EXCEPT ![h].pc = "lookup"]
    /\ UNCHANGED <<pipelines, native, creator, created, stopReturned, calls, written,
                   aborted>>

\* the map read without waiting for the mutex
HandleLockNoMutex(h) == handleLock(h, FALSE)

HandleLock(h) == handleLock(h, TRUE)

\* gst.go:114-123: the map read and pipelinesLock.Unlock(), and on a hit the
\* sample count; reading codecName through a nil *Pipeline panics
handleLookup(h, checksOk, unlocks) ==
    /\ ~aborted
    /\ UNCHANGED mw
    /\ handler[h].pc = "lookup"
    /\ pipelinesLock' = IF unlocks THEN NoLock ELSE pipelinesLock
    /\ LET id == handler[h].pipelineID
           ok == id \in DOMAIN pipelines
           pipeline == IF ok THEN pipelines[id] ELSE NilPipeline
           rate == clockRateOf(pipeline.codecName)
       IN IF ~ok /\ ~checksOk
          THEN /\ handler' = [handler EXCEPT ![h].pc = "panicked"]
               /\ calls' = [calls EXCEPT ![handler[h].call].status = "panicked"]
               /\ aborted' = TRUE
          ELSE /\ handler' = [handler EXCEPT ![h].pipeline = pipeline, ![h].ok = ok,
                                 ![h].clockRate = IF ok THEN rate ELSE 0,
                                 ![h].samples = IF ok THEN sampleCount[rate, handler[h].duration]
                                                ELSE 0,
                                 ![h].i = 1,
                                 ![h].pc = IF ~ok THEN "discard"
                                           ELSE IF Len(pipeline.tracks) = 0 THEN "free"
                                           ELSE "write"]
               /\ calls' = [calls EXCEPT ![handler[h].call].found = ok]
               /\ UNCHANGED aborted
    /\ UNCHANGED <<pipelines, native, creator, created, stopReturned, written>>

\* the second result of the map read is ignored
HandleLookupIgnoreOk(h) == handleLookup(h, FALSE, TRUE)

\* the Unlock is left out and the mutex stays with the handler
HandleLookupKeepLock(h) == handleLookup(h, TRUE, FALSE)

HandleLookup(h) == handleLookup(h, TRUE, TRUE)

\* gst.go:124-128: one turn of the loop over pipeline.tracks; the write
\* succeeds or returns an error, and on an error the handler panics
handleWrite(h, panics, wholeList) ==
    /\ ~aborted
    /\ UNCHANGED mw
    /\ handler[h].pc = "write"
    /\ LET t == handler[h].pipeline.tracks[handler[h].i]
           sample == [Data |-> GoBytes(handler[h].buffer, handler[h].bufferLen),
                      Samples |-> handler[h].samples,
                      call |-> handler[h].call, entry |-> handler[h].i]
           last == ~wholeList \/ handler[h].i = Len(handler[h].pipeline.tracks)
       IN \E err \in BOOLEAN :
            IF err
            THEN /\ calls' = [calls EXCEPT ![handler[h].call].writeErr = TRUE,
                                 ![handler[h].call].status = IF panics THEN "panicked" ELSE @]
                 /\ handler' = IF panics
                               THEN [handler EXCEPT ![h].pc = "panicked"]
                               ELSE [handler EXCEPT ![h].i = @ + 1,
                                                    ![h].pc = IF last THEN "free" ELSE "write"]
                 /\ aborted' = panics
                 /\ UNCHANGED written
            ELSE /\ written' = [written EXCEPT ![t] = Append(@, sample)]
                 /\ handler' = [handler EXCEPT ![h].i = @ + 1,
                                   ![h].pc = IF last THEN "free" ELSE "write"]
                 /\ UNCHANGED <<calls, aborted>>
    /\ UNCHANGED <<pipelines, pipelinesLock, native, creator, created, stopReturned>>

\* the error of WriteSample is dropped and the loop goes on
HandleWriteSwallow(h) == handleWrite(h, FALSE, TRUE)

\* the loop ends after its first turn
HandleWriteBreak(h) == handleWrite(h, TRUE, FALSE)

HandleWrite(h) == handleWrite(h, TRUE, TRUE)

\* gst.go:129-133: the miss is printed, the buffer is freed, the call returns
HandleDiscard(h) ==
    /\ ~aborted
    /\ UNCHANGED mw
    /\ handler[h].pc = "discard"
    /\ calls' = [calls EXCEPT ![handler[h].call].freed = @ + 1,
                              ![handler[h].call].status = "returned"]
    /\ handler' = [handler EXCEPT ![h] = IdleHandler]
    /\ UNCHANGED <<pipelines, pipelinesLock, native, creator, created, stopReturned,
                   written, aborted>>

\* gst.go:132-133 after the loop: C.free(buffer) and the return
HandleFree(h) ==
    /\ ~aborted
    /\ UNCHANGED mw
    /\ handler[h].pc = "free"
    /\ calls' = [calls EXCEPT ![handler[h].call].freed = @ + 1,
                              ![handler[h].call].status = "returned"]
    /\ handler' = [handler EXCEPT ![h] = IdleHandler]
    /\ UNCHANGED <<pipelines, pipelinesLock, native, creator, created, stopReturned,
                   written, aborted>>

goHandlePipelineBuffer(h) ==
    \/ \E in \in BufferInputs, id \in -1..MaxPipelines :
          HandleCall(h, in.buffer, in.duration, id)
    \/ HandleLock(h)
    \/ HandleLookup(h)
    \/ HandleWrite(h)
    \/ HandleDiscard(h)
    \/ HandleFree(h)

(***************************************************************************)
(* JWTMiddleware.MiddlewareInit, gst.go:222-299, with parsePublicKey and   *)
(* parsePrivateKey, gst.go:399-427                                         *)
(***************************************************************************)
ErrInvalidAlg == "signing algorithm is invalid"
ErrHMACAlg == "HMAC algorithms are not accepted"
ErrMissingPubKey == "public key is required"
ErrMissingPrivKey == "private key is required"
NilPointerPanic == "panic: nil pointer dereference"

\* strings.ToUpper on the ASCII letters
LowerLetters == "abcdefghijklmnopqrstuvwxyz"
UpperLetters == "ABCDEFGHIJKLMNOPQRSTUVWXYZ"
UpperOf(ch) ==
    IF \E i \in 1..Len(LowerLetters) : SubSeq(LowerLetters, i, i) = ch
    THEN LET i == CHOOSE i \in 1..Len(LowerLetters) : SubSeq(LowerLetters, i, i) = ch
         IN SubSeq(UpperLetters, i, i)
    ELSE ch
RECURSIVE ToUpper(_)
ToUpper(str) ==
    IF Len(str) = 0 THEN ""
    ELSE UpperOf(SubSeq(str, 1, 1)) \o ToUpper(SubSeq(str, 2, Len(str)))

\* the files the key paths may name: ioutil.ReadFile fails on a path that
\* is in no file; a PEM file holds a key of one family and one kind, or none
KeyFiles ==
    [p \in {"rsa.pub", "ec.pub", "rsa.key", "ec.key", "notes.txt"} |->
        CASE p = "rsa.pub" -> [family |-> "RSA", kind |-> "PUBLIC"]
          [] p = "ec.pub" -> [family |-> "EC", kind |-> "PUBLIC"]
          [] p = "rsa.key" -> [family |-> "RSA", kind |-> "PRIVATE"]
          [] p = "ec.key" -> [family |-> "EC", kind |-> "PRIVATE"]
          [] OTHER -> NoKey]
ReadFile(path) ==
    IF path \in DOMAIN KeyFiles THEN [data |-> KeyFiles[path], err |-> FALSE]
    ELSE [data |-> NoKey, err |-> TRUE]

\* crypto.ParseRSAPublicKeyFromPEM and its three siblings: the key of the
\* PEM data when it is of the family and kind asked for, an error otherwise
ParseKeyFromPEM(family, kind, k) ==
    IF k.family = family /\ k.kind = kind THEN [key |-> k, err |-> NoError]
    ELSE [key |-> NoKey, err |-> "not a " \o family \o " " \o kind \o " key"]

\* gst.go:399-412: a switch whose cases RS256, RS384, ES256 and ES384 are
\* empty, and an empty case of a Go switch leaves the switch
parsePublicKey(SigningAlgorithm, k) ==
    LET alg == ToUpper(SigningAlgorithm)
    IN CASE alg = "RS256" -> [key |-> NoKey, err |-> ErrInvalidAlg]
         [] alg = "RS384" -> [key |-> NoKey, err |-> ErrInvalidAlg]
         [] alg = "RS512" -> ParseKeyFromPEM("RSA", "PUBLIC", k)
         [] alg = "ES256" -> [key |-> NoKey, err |-> ErrInvalidAlg]
         [] alg = "ES384" -> [key |-> NoKey, err |-> ErrInvalidAlg]
         [] alg = "ES512" -> ParseKeyFromPEM("EC", "PUBLIC", k)
         [] OTHER -> [key |-> NoKey, err |-> ErrInvalidAlg]

\* gst.go:414-427
parsePrivateKey(SigningAlgorithm, k) ==
    LET alg == ToUpper(SigningAlgorithm)
    IN CASE alg = "RS256" -> [key |-> NoKey, err |-> ErrInvalidAlg]
         [] alg = "RS384" -> [key |-> NoKey, err |-> ErrInvalidAlg]
         [] alg = "RS512" -> ParseKeyFromPEM("RSA", "PRIVATE", k)
         [] alg = "ES256" -> [key |-> NoKey, err |-> ErrInvalidAlg]
         [] alg = "ES384" -> [key |-> NoKey, err |-> ErrInvalidAlg]
         [] alg = "ES512" -> ParseKeyFromPEM("EC", "PRIVATE", k)
         [] OTHER -> [key |-> NoKey, err |-> ErrInvalidAlg]

\* gst.go:225-239: the switch on the upper-cased algorithm name returns an
\* error or leaves the switch (NoError); the cases before ES512 and the
\* cases HS256 and HS384 are empty
checkAlgorithm(SigningAlgorithm) ==
    LET alg == ToUpper(SigningAlgorithm)
    IN CASE alg = "RS256" -> NoError
         [] alg = "RS384" -> NoError
         [] alg = "RS512" -> NoError
         [] alg = "ES256" -> NoError
         [] alg = "ES384" -> NoError
         [] alg = "ES512" -> NoError
         [] alg = "HS256" -> NoError
         [] alg = "HS384" -> NoError
         [] alg = "HS512" -> ErrHMACAlg
         [] OTHER -> ErrInvalidAlg

\* gst.go:241-257 (missing = ErrMissingPubKey, parsed = what parsePublicKey
\* makes of the file) and gst.go:259-275 (ErrMissingPrivKey,
\* parsePrivateKey): the key is loaded from its path when a path is set and
\* no key is; then a key is required
loadKey(path, key, parsed, missing) ==
    IF path # "" /\ key = NoKey
    THEN IF ReadFile(path).err THEN [key |-> key, err |-> missing, read |-> {path}]
         ELSE IF parsed.err # NoError
         THEN [key |-> key, err |-> missing, read |-> {path}]
         ELSE [key |-> parsed.key, err |-> NoError, read |-> {path}]
    ELSE IF key = NoKey THEN [key |-> key, err |-> missing, read |-> {}]
    ELSE [key |-> key, err |-> NoError, read |-> {}]

\* the key stores of keysInterfaces, gst.go:206-209
keysInterfaces == {"mysql"}

AlgorithmInputs ==
    {"RS256", "RS384", "RS512", "ES256", "ES384", "ES512", "HS256", "HS384", "HS512",
     "rs512", "Es512", "hs256", "Hs512", "PS256", "none", ""}
PresetKeys == {NoKey, [family |-> "RSA", kind |-> "PUBLIC"], [family |-> "EC", kind |-> "PRIVATE"]}
PubKeyPaths == {"", "rsa.pub", "ec.pub", "notes.txt", "gone.pub"}
PrivKeyPaths == {"", "rsa.key", "ec.key", "gone.key"}
InterfaceInputs == {"mysql", "ldap"}
MiddlewareInputs ==
    [SigningAlgorithm : AlgorithmInputs, PubKeyPath : PubKeyPaths, PrivKeyPath : PrivKeyPaths,
     PubKey : PresetKeys, PrivKey : PresetKeys, Interface : InterfaceInputs]

\* MiddlewareInit on a new JWTMiddleware with the fields of m and no key
\* store: the fields it leaves, the files it read and the error it returned
MiddlewareInit(m) ==
    LET algErr == checkAlgorithm(m.SigningAlgorithm)
        pub == loadKey(m.PubKeyPath, m.PubKey,
                       parsePublicKey(m.SigningAlgorithm, ReadFile(m.PubKeyPath).data),
                       ErrMissingPubKey)
        priv == loadKey(m.PrivKeyPath, m.PrivKey,
                        parsePrivateKey(m.SigningAlgorithm, ReadFile(m.PrivKeyPath).data),
                        ErrMissingPrivKey)
        fresh == [called |-> TRUE, config |-> m, PubKey |-> m.PubKey, PrivKey |-> m.PrivKey,
                  AuthorisedKeys |-> "", read |-> {}, err |-> NoError]
    IN /\ ~mw.called
       /\ mw' = IF algErr # NoError THEN [fresh EXCEPT !.err = algErr]
                ELSE IF pub.err # NoError
                THEN [fresh EXCEPT !.err = pub.err, !.read = pub.read]
                ELSE IF priv.err # NoError
                THEN [fresh EXCEPT !.PubKey = pub.key, !.err = priv.err,
                                   !.read = pub.read \cup priv.read]
                ELSE [fresh EXCEPT !.PubKey = pub.key, !.PrivKey = priv.key,
                                   !.read = pub.read \cup priv.read,
                                   !.AuthorisedKeys = IF m.Interface \in keysInterfaces
                                                      THEN m.Interface ELSE "",
                                   !.err = IF m.Interface \in keysInterfaces
                                           THEN NoError ELSE NilPointerPanic]
       /\ UNCHANGED <<pipelines, pipelinesLock, native, creator, created, stopReturned,
                      handler, calls, written, aborted>>

NextAuth == \E m \in MiddlewareInputs : MiddlewareInit(m)

SpecAuth == Init /\ [][NextAuth]_vars

Next ==
    \/ \E c \in Creators : CreatePipeline(c)
    \/ \E k \in 1..MaxPipelines : Start(k)
    \/ \E k \in 1..MaxPipelines : Stop(k)
    \/ \E h \in HThreads : goHandlePipelineBuffer(h)

Spec == Init /\ [][Next]_vars

\* the callers alone: sessions are created, started and stopped and no
\* buffer arrives
NextCreate ==
    \/ \E c \in Creators : CreatePipeline(c)
    \/ \E k \in 1..MaxPipelines : Start(k)
    \/ \E k \in 1..MaxPipelines : Stop(k)

SpecCreate == Init /\ [][NextCreate]_vars

\* delivery: one caller creates two-track video sessions one after the
\* other, every native pipeline builds, the pipelines that play deliver
\* their buffers while sessions are created, started and stopped, and a
\* native caller hands in buffers with the id of no session
DeliverInputs == { [codecName |-> VP8, tracks |-> <<"A", "B">>] }
StrayInputs == { [buffer |-> <<2, 3>>, duration |-> 20000000] }
Owner == -1
NextDeliver ==
    \/ \E in \in DeliverInputs, src \in SourceInputs :
          CreateCall(Owner, in.codecName, in.tracks, src)
    \/ CreateLockBuilt(Owner)
    \/ CreateStore(Owner)
    \/ \E k \in 1..MaxPipelines : Start(k)
    \/ \E k \in 1..MaxPipelines : Stop(k)
    \/ \E h \in Handles, in \in BufferInputs, id \in -1..MaxPipelines :
          HandleCall(h, in.buffer, in.duration, id)
    \/ \E in \in StrayInputs, id \in StrayIds :
          HandleCall(Stray, in.buffer, in.duration, id)
    \/ \E h \in HThreads :
          \/ HandleLock(h)
          \/ HandleLookup(h)
          \/ HandleWrite(h)
          \/ HandleDiscard(h)
          \/ HandleFree(h)

SpecDeliver == Init /\ [][NextDeliver]_vars

\* contention for the registry lock: two callers create one-track audio
\* sessions at the same time, every native pipeline builds, and the
\* pipelines that play and a stray native caller deliver buffers meanwhile
LockInputs == { [codecName |-> Opus, tracks |-> <<"B">>] }
NextLock ==
    \/ \E c \in Creators :
          \/ \E in \in LockInputs, src \in SourceInputs :
                CreateCall(c, in.codecName, in.tracks, src)
          \/ CreateLockBuilt(c)
          \/ CreateStore(c)
    \/ \E k \in 1..MaxPipelines : Start(k)
    \/ \E h \in Handles, in \in StrayInputs, id \in -1..MaxPipelines :
          HandleCall(h, in.buffer, in.duration, id)
    \/ \E in \in StrayInputs, id \in StrayIds :
          HandleCall(Stray, in.buffer, in.duration, id)
    \/ \E h \in HThreads :
          \/ HandleLock(h)
          \/ HandleLookup(h)
          \/ HandleWrite(h)
          \/ HandleDiscard(h)
          \/ HandleFree(h)

SpecLock == Init /\ [][NextLock]_vars

\* routing: one caller creates a video session on track A and an audio
\* session on track B, in either order, and the pipelines that play deliver
\* their buffers side by side; every buffer comes from a started pipeline,
\* so no lookup misses
RouteInputs ==
    { [codecName |-> VP8, tracks |-> <<"A">>], [codecName |-> Opus, tracks |-> <<"B">>] }
NextRoute ==
    \/ \E in \in RouteInputs, src \in SourceInputs :
          CreateCall(Owner, in.codecName, in.tracks, src)
    \/ CreateLockBuilt(Owner)
    \/ CreateStore(Owner)
    \/ \E k \in 1..MaxPipelines : Start(k)
    \/ \E k \in 1..MaxPipelines : Stop(k)
    \/ \E h \in Handles, in \in StrayInputs, id \in -1..MaxPipelines :
          HandleCall(h, in.buffer, in.duration, id)
    \/ \E h \in Handles :
          \/ HandleLock(h)
          \/ HandleLookup(h)
          \/ HandleWrite(h)
          \/ HandleFree(h)

SpecRoute == Init /\ [][NextRoute]_vars

\* the pipeline description: two callers create sessions of every codec
\* name from every source description, among them the empty one and one
\* that reads like the sink stage
BuildSources == {"videotestsrc", "", "appsink name=appsink"}
BuildCodecs == SupportedCodecs \cup {"AV1"}
NextBuild ==
    \E c \in Creators :
        \/ \E codecName \in BuildCodecs, src \in BuildSources :
              CreateCall(c, codecName, << >>, src)
        \/ CreateLock(c)
        \/ CreateStore(c)

SpecBuild == Init /\ [][NextBuild]_vars

\* the same with the scheduler's fairness: a thread inside CreatePipeline or
\* inside the buffer callback that can take its next step eventually takes
\* it (the native construction and the track write return); nothing makes
\* a caller start a call
Fairness ==
    /\ \A c \in Creators : WF_vars(CreateLockBuilt(c)) /\ WF_vars(CreateStore(c))
    /\ \A h \in HThreads :
          /\ WF_vars(HandleLock(h))
          /\ WF_vars(HandleLookup(h))
          /\ WF_vars(HandleWrite(h))
          /\ WF_vars(HandleDiscard(h))
          /\ WF_vars(HandleFree(h))

SpecLive == Init /\ [][NextLock]_vars /\ Fairness

(***************************************************************************)
(* Properties.                                                             *)
(***************************************************************************)
CallIds == 1..Len(calls)
\* the samples of call n that track t holds
SamplesOf(n, t) == {j \in 1..Len(written[t]) : written[t][j].call = n}
\* the samples of call n written for entry i of the track list tr
EntrySamples(n, tr, i) == {j \in SamplesOf(n, tr[i]) : written[tr[i]][j].entry = i}
Delivered(n) == calls[n].status = "returned" /\ calls[n].found
SessionOf(n) == pipelines[calls[n].pipelineID]

\* C1: a buffer-arrival call whose id is registered and whose writes all
\* succeed has put exactly one sample on every entry of the session's track
\* list, each carrying the payload of the call and one common sample count.
C1_FanOut ==
    \A n \in CallIds :
        Delivered(n) =>
            LET tr == SessionOf(n).tracks
            IN /\ \A i \in 1..Len(tr) : Cardinality(EntrySamples(n, tr, i)) = 1
               /\ \A t \in TrackNames : \A j \in SamplesOf(n, t) :
                     /\ written[t][j].Data = calls[n].buffer
                     /\ written[t][j].entry \in 1..Len(tr)
                     /\ tr[written[t][j].entry] = t
               /\ \A t, u \in TrackNames : \A j \in SamplesOf(n, t), k \in SamplesOf(n, u) :
                     written[t][j].Samples = written[u][k].Samples

C1_Witness ==
    \E n \in CallIds :
        /\ Delivered(n)
        /\ SessionOf(n).tracks = <<"A", "B">>
        /\ SamplesOf(n, "A") # {} /\ SamplesOf(n, "B") # {}
        /\ Len(calls[n].buffer) = 2

\* C2: on every entry of a session's track list the samples of that
\* session appear in the order their buffers arrived, none twice, and every
\* buffer whose call returned after a hit is there.
C2_Fifo ==
    \A s \in DOMAIN pipelines :
        LET tr == pipelines[s].tracks
        IN \A i \in 1..Len(tr) :
            LET log == written[tr[i]]
                Mine(j) == calls[log[j].call].pipelineID = s /\ log[j].entry = i
            IN /\ \A j, k \in 1..Len(log) :
                    (Mine(j) /\ Mine(k) /\ j < k) => log[j].call < log[k].call
               /\ \A n \in CallIds :
                    (Delivered(n) /\ calls[n].pipelineID = s) =>
                        \E j \in 1..Len(log) : Mine(j) /\ log[j].call = n

C2_Witness ==
    \E s \in DOMAIN pipelines :
        /\ Len(pipelines[s].tracks) = 2
        /\ \E n, m \in CallIds :
              /\ n < m
              /\ calls[n].pipelineID = s /\ calls[m].pipelineID = s
              /\ Delivered(n) /\ Delivered(m)

\* C3: a buffer-arrival call that finds no session for its id writes no
\* sample to any track and does not panic; it returns with the buffer dropped.
C3_UnknownIdDiscarded ==
    \A n \in CallIds :
        ~calls[n].found =>
            /\ calls[n].status # "panicked"
            /\ \A t \in TrackNames : SamplesOf(n, t) = {}
            /\ handler[calls[n].thread].pc \in {"idle", "lock", "lookup", "discard"}

C3_Witness ==
    \E n \in CallIds :
        /\ ~calls[n].found
        /\ calls[n].status = "returned"
        /\ calls[n].pipelineID \notin DOMAIN pipelines
        /\ DOMAIN pipelines # {}

\* C4: the pipelines CreatePipeline returned have pairwise distinct ids,
\* whatever the interleaving of the calls, and a call that ran while no other
\* CreatePipeline call was running got the number of earlier returned calls.
C4_DistinctIds ==
    /\ \A j, k \in 1..Len(created) :
          j # k => created[j].pipeline.id # created[k].pipeline.id
    /\ \A k \in 1..Len(created) :
          created[k].solo => created[k].pipeline.id = created[k].before
    /\ \A k \in 1..Len(created) :
          /\ created[k].pipeline.id \in DOMAIN pipelines
          /\ pipelines[created[k].pipeline.id] = created[k].pipeline

C4_Witness ==
    /\ Len(created) = 2
    /\ ~created[1].solo /\ ~created[2].solo
    /\ {created[1].pipeline.id, created[2].pipeline.id} = {0, 1}
\* C7: a CreatePipeline call with a codec name outside the five supported
\* ones panics in the step that enters it, with the registry, the lock, the
\* native pipelines and the returned pipelines all as they were, the lock
\* not held by the caller and no pipeline in its hands; no session of the
\* registry ever carries such a codec name.
C7_UnsupportedCodecRejected ==
    [][ /\ \A c \in Creators :
            (creator[c].pc = "idle" /\ creator'[c] # creator[c]
                /\ creator'[c].codecName \notin SupportedCodecs) =>
                /\ creator'[c].pc = "panicked"
                /\ creator'[c].pipeline = NilPipeline
                /\ pipelinesLock' # c
                /\ UNCHANGED <<pipelines, pipelinesLock, native, created>>
        /\ \A s \in DOMAIN pipelines' : pipelines'[s].codecName \in SupportedCodecs
      ]_vars

C7_Witness ==
    \E c \in Creators :
        /\ creator[c].pc = "panicked"
        /\ creator[c].codecName = "AV1"
        /\ ~aborted
        /\ DOMAIN pipelines = {0}
        /\ \E d \in Creators : creator[d].pc = "store"

\* C8: once Stop has returned on a session and until it is started again, no
\* buffer-arrival call with the id of that session begins, and at most one
\* call with that id, begun earlier, is still running.
InFlight(id) == {h \in HThreads : handler[h].pc \in {"lock", "lookup", "write", "discard", "free"}
                                   /\ handler[h].pipelineID = id}
C8_NoCallbackAfterStop ==
    [][ /\ \A h \in HThreads :
            (handler[h].pc = "idle" /\ handler'[h].pc # "idle") =>
                \A k \in stopReturned : created[k].pipeline.id # handler'[h].pipelineID
        /\ \A k \in stopReturned : Cardinality(InFlight(created[k].pipeline.id)) <= 1
      ]_vars

C8_Witness ==
    \E k \in stopReturned :
        /\ created[k].pipeline.Pipeline # NULL
        /\ native[created[k].pipeline.Pipeline].state = "NULL"
        /\ \E h \in InFlight(created[k].pipeline.id) : handler[h].pc = "write"

\* C9: a track write that fails makes the handler panic in that very step:
\* the call never returns, the process is over, and no thread of any session
\* takes another step.
WriteFailed == \E n \in CallIds : calls[n].writeErr
C9_WriteFailureFatal ==
    [][ /\ ~WriteFailed
        /\ \A n \in 1..Len(calls') :
              calls'[n].writeErr =>
                  /\ calls'[n].status = "panicked"
                  /\ handler'[calls'[n].thread].pc = "panicked"
                  /\ aborted'
      ]_vars

C9_Witness ==
    \E n \in CallIds :
        /\ calls[n].writeErr
        /\ aborted
        /\ \E h \in 1..Len(native) : h # calls[n].thread /\ native[h].state = "PLAYING"

\* C5 as stated: the sample count of a call that found its session is the
\* clock rate the handler resolved, times the duration in seconds, rounded
\* to the nearest integer.
RoundedSamples(clockRate, duration) ==
    LET perMicro == clockRate \div 1000
        whole == duration \div 1000000
        rest == duration % 1000000
    IN perMicro * whole + ((perMicro * rest + 500000) \div 1000000)
Resolved(h) == handler[h].ok /\ handler[h].pc \in {"write", "free"}
C5_RoundedSampleCount ==
    \A h \in HThreads :
        Resolved(h) => handler[h].samples = RoundedSamples(handler[h].clockRate, handler[h].duration)

\* C6 as stated: the handler computes with 48000 Hz for the audio codecs
\* Opus and G722 and with 90000 Hz for the video codecs VP8, VP9 and H264.
C6_DocumentedClockRate ==
    \A h \in HThreads :
        Resolved(h) =>
            handler[h].clockRate = IF handler[h].pipeline.codecName \in {Opus, G722}
                                   THEN audioClockRate ELSE videoClockRate

\* C10 as stated: on every path of a buffer-arrival call (hit, miss, failed
\* write) the buffer is freed exactly once, and not while the call still
\* has a write to make.
C10_ReleasedOnce ==
    \A n \in CallIds :
        /\ calls[n].freed <= 1
        /\ calls[n].status \in {"returned", "panicked"} => calls[n].freed = 1
        /\ calls[n].freed = 1 => calls[n].status # "running"

\* C11 as stated: when the native pipeline cannot be built, CreatePipeline
\* hands no session to its caller and the registry holds no session whose
\* native handle is NULL.
C11_FailedCreateAborts ==
    /\ \A k \in 1..Len(created) : created[k].pipeline.Pipeline # NULL
    /\ \A s \in DOMAIN pipelines : pipelines[s].Pipeline # NULL

\* C12: a handler that has a track write to make, or has made its writes,
\* does not hold the registry lock: whenever a handler is at a write, the
\* lock is free or is held by a thread inside its own critical section (a
\* CreatePipeline call about to store, a handler about to look up), so the
\* write keeps no other thread from the lock.
InCritical ==
    {c \in Creators : creator[c].pc = "store"} \cup {h \in HThreads : handler[h].pc = "lookup"}
C12_NoWriteUnderLock ==
    \A h \in HThreads :
        handler[h].pc \in {"write", "discard", "free"} =>
            /\ pipelinesLock # h
            /\ pipelinesLock \in {NoLock} \cup InCritical

C12_Witness ==
    \E h \in HThreads :
        /\ handler[h].pc = "write"
        /\ handler[h].i = 2
        /\ \E c \in Creators : creator[c].pc = "store" /\ pipelinesLock = c
        /\ \E g \in HThreads : g # h /\ handler[g].pc = "lock"

\* C13: the registry is read and written only by the thread that holds the
\* registry lock: the threads inside a critical section are at most one, and
\* it is the holder; a step that changes the map is the holder's store and a
\* step that reads it is the holder's lookup; and the session a lookup found
\* is the whole session that is registered under the id.
C13_RegistryUnderLock ==
    /\ [](/\ Cardinality(InCritical) <= 1
          /\ \A t \in InCritical : pipelinesLock = t
          /\ \A h \in HThreads :
                (handler[h].ok /\ handler[h].pc \in {"write", "free"}) =>
                    /\ handler[h].pipelineID \in DOMAIN pipelines
                    /\ handler[h].pipeline = pipelines[handler[h].pipelineID]
                    /\ handler[h].pipeline.id = handler[h].pipelineID)
    /\ [][ /\ pipelines' # pipelines =>
                \E c \in Creators : creator[c].pc = "store" /\ pipelinesLock = c
           /\ \A h \in HThreads :
                (handler[h].pc = "lookup" /\ handler'[h].pc # "lookup") =>
                    pipelinesLock = h /\ InCritical = {h}
         ]_vars

C13_Witness ==
    /\ \E c \in Creators : creator[c].pc = "store" /\ pipelinesLock = c
    /\ \E h \in Handles : handler[h].pc = "lock" /\ handler[h].pipelineID = 0
    /\ handler[Stray].pc = "lock"
    /\ DOMAIN pipelines = {0}

\* C14: the registry changes only in the step that ends a CreatePipeline
\* call by returning its session, and then it gains one key and keeps every
\* entry it had; the steps of Start, Stop and the buffer-arrival calls leave
\* it as it was; the session Stop returned on stays registered, and a lookup
\* of its id made after the Stop finds it.
C14_RegistryFrame ==
    [][ /\ pipelines' # pipelines =>
              /\ Len(created') = Len(created) + 1
              /\ Cardinality(DOMAIN pipelines') = Cardinality(DOMAIN pipelines) + 1
              /\ \A s \in DOMAIN pipelines :
                    s \in DOMAIN pipelines' /\ pipelines'[s] = pipelines[s]
        /\ (native' # native \/ stopReturned' # stopReturned \/ handler' # handler
               \/ calls' # calls \/ written' # written) => pipelines' = pipelines
        /\ \A k \in stopReturned' :
              /\ created'[k].pipeline.id \in DOMAIN pipelines'
              /\ pipelines'[created'[k].pipeline.id] = created'[k].pipeline
        /\ \A h \in HThreads :
              (handler[h].pc = "lookup" /\ handler'[h].pc \notin {"lookup", "panicked"}
                  /\ \E k \in stopReturned : created[k].pipeline.id = handler[h].pipelineID)
                  => handler'[h].ok
      ]_vars

C14_Witness ==
    /\ Len(created) = 2
    /\ DOMAIN pipelines = {0, 1}
    /\ 1 \in stopReturned
    /\ native[created[1].pipeline.Pipeline].state = "NULL"
    /\ \E h \in HThreads :
          /\ handler[h].pipelineID = created[1].pipeline.id
          /\ handler[h].ok
          /\ handler[h].pc = "free"

\* C15: a native pipeline that was started reports the id of the session
\* that holds it; every sample on a track comes from a call whose id is
\* registered to a session that lists the track; and a sample that comes
\* from a pipeline's streaming thread is on a track of the session that
\* holds this pipeline, never on a track that only another session lists.
TracksOf(p) == {p.tracks[i] : i \in 1..Len(p.tracks)}
C15_Routing ==
    /\ \A k \in 1..Len(created) :
          LET p == created[k].pipeline
          IN p.Pipeline # NULL => native[p.Pipeline].id \in {-1, p.id}
    /\ \A t \in TrackNames : \A j \in 1..Len(written[t]) :
          LET n == written[t][j].call
          IN /\ calls[n].pipelineID \in DOMAIN pipelines
             /\ t \in TracksOf(pipelines[calls[n].pipelineID])
             /\ \A k \in 1..Len(created) :
                   created[k].pipeline.Pipeline = calls[n].thread =>
                       t \in TracksOf(created[k].pipeline)

C15_Witness ==
    /\ Len(created) = 2
    /\ TracksOf(created[1].pipeline) # TracksOf(created[2].pipeline)
    /\ \E n, m \in CallIds :
          /\ calls[n].thread = created[1].pipeline.Pipeline
          /\ calls[m].thread = created[2].pipeline.Pipeline
          /\ Delivered(n) /\ Delivered(m)
    /\ Len(written["A"]) = 1 /\ Len(written["B"]) = 1

\* C16: the description a CreatePipeline call built for a supported codec
\* begins with the source description it was given, ends with the sink
\* stage "appsink name=appsink", and has a non-empty encoder fragment in
\* between; the fragment depends on the codec alone, two codecs never give
\* the same one, and the native pipeline is built from this description.
SinkStage == "appsink name=appsink"
Building == {c \in Creators : creator[c].pc \in {"lock", "store"}}
FragmentOf(c) ==
    SubSeq(creator[c].pipelineStr, Len(creator[c].pipelineSrc) + 1,
           Len(creator[c].pipelineStr) - Len(SinkStage))
C16_DescriptionOrder ==
    /\ \A c \in Building :
          LET str == creator[c].pipelineStr
              src == creator[c].pipelineSrc
          IN /\ creator[c].codecName \in SupportedCodecs
             /\ Len(str) > Len(src) + Len(SinkStage)
             /\ SubSeq(str, 1, Len(src)) = src
             /\ SubSeq(str, Len(str) - Len(SinkStage) + 1, Len(str)) = SinkStage
             /\ str = src \o FragmentOf(c) \o SinkStage
             /\ (creator[c].pc = "store" /\ creator[c].pipeline.Pipeline # NULL) =>
                    native[creator[c].pipeline.Pipeline].desc = str
    /\ \A c, d \in Building :
          (creator[c].codecName = creator[d].codecName) <=> (FragmentOf(c) = FragmentOf(d))

C16_Witness ==
    \E c, d \in Building :
        /\ creator[c].codecName = H264 /\ creator[c].pipelineSrc = "appsink name=appsink"
        /\ creator[d].codecName = G722 /\ creator[d].pipelineSrc = ""
        /\ creator[d].pc = "store" /\ creator[d].pipeline.Pipeline # NULL

\* C17 as stated: MiddlewareInit with a signing algorithm that is, in any
\* letter case, HS256, HS384 or HS512 returns ErrHMACAlg and has read no key
\* file; with a name outside the nine RS, ES and HS names it returns
\* ErrInvalidAlg.
HmacNames == {"HS256", "HS384", "HS512"}
AcceptedNames == {"RS256", "RS384", "RS512", "ES256", "ES384", "ES512"}
C17_HmacRejected ==
    mw.called =>
        LET alg == ToUpper(mw.config.SigningAlgorithm)
        IN /\ alg \in HmacNames => (mw.err = ErrHMACAlg /\ mw.read = {})
           /\ alg \notin (HmacNames \cup AcceptedNames) => mw.err = ErrInvalidAlg

\* C18 as stated: with an accepted algorithm, no key preset and the key
\* paths naming well-formed PEM keys of the algorithm's family, MiddlewareInit
\* sets PubKey and PrivKey to the keys of the files and returns neither
\* ErrMissingPubKey nor ErrMissingPrivKey.
FamilyOf(alg) == IF alg \in {"RS256", "RS384", "RS512"} THEN "RSA" ELSE "EC"
WellFormed(path, family, kind) ==
    /\ path \in DOMAIN KeyFiles
    /\ KeyFiles[path] = [family |-> family, kind |-> kind]
C18_KeysLoaded ==
    LET alg == ToUpper(mw.config.SigningAlgorithm)
    IN (/\ mw.called
        /\ alg \in AcceptedNames
        /\ mw.config.PubKey = NoKey /\ mw.config.PrivKey = NoKey
        /\ WellFormed(mw.config.PubKeyPath, FamilyOf(alg), "PUBLIC")
        /\ WellFormed(mw.config.PrivKeyPath, FamilyOf(alg), "PRIVATE"))
       => /\ mw.err \notin {ErrMissingPubKey, ErrMissingPrivKey}
          /\ mw.PubKey = KeyFiles[mw.config.PubKeyPath]
          /\ mw.PrivKey = KeyFiles[mw.config.PrivKeyPath]

\* C19: under weak fairness of the threads, every CreatePipeline call and
\* every buffer-arrival call that has started comes to its end, by returning
\* or by a panic (a panic that is not recovered ends the process and every
\* call with it); and a thread that is in no call, or has panicked, does
\* not hold the registry lock.
Finished(pc) == pc \in {"idle", "panicked"}
C19_LockLiveness ==
    /\ [](\A c \in Creators : Finished(creator[c].pc) => pipelinesLock # c)
    /\ [](\A h \in HThreads : Finished(handler[h].pc) => pipelinesLock # h)
    /\ \A c \in Creators :
          (~Finished(creator[c].pc)) ~> (Finished(creator[c].pc) \/ aborted)
    /\ \A h \in HThreads :
          (~Finished(handler[h].pc)) ~> (Finished(handler[h].pc) \/ aborted)

C19_Witness ==
    /\ \A c \in Creators : creator[c].pc = "lock"
    /\ handler[Stray].pc = "lookup"
    /\ pipelinesLock = Stray

\* C20: the keys of the registry are 0 .. n-1 for its n sessions, the
\* session under key k has id k, and the id a CreatePipeline call has
\* taken under the lock is the key of no session yet.
C20_DenseKeys ==
    /\ DOMAIN pipelines = 0..(Cardinality(DOMAIN pipelines) - 1)
    /\ \A k \in DOMAIN pipelines : pipelines[k].id = k
    /\ \A c \in Creators :
          creator[c].pc = "store" =>
              /\ creator[c].pipeline.id = Cardinality(DOMAIN pipelines)
              /\ creator[c].pipeline.id \notin DOMAIN pipelines

C20_Witness ==
    /\ DOMAIN pipelines = {0}
    /\ pipelines[0].codecName = G722
    /\ \E c \in Creators :
          /\ creator[c].pc = "store"
          /\ creator[c].pipeline.id = 1
          /\ creator[c].codecName = Opus
====
